---- MODULE Spec2Model ----
(***************************************************************************)
(* Model of update_tickers.py: fetch_tickers (filter, dedup, field         *)
(* parsing), save_files (sort, top-N prefixes, per-industry partitions)    *)
(* and the __main__ driver with its exit status.                           *)
(*                                                                         *)
(* Strings the code inspects character by character (symbol, marketCap,    *)
(* lastsale, volume, sector/industry) are sequences of one-character       *)
(* strings.  Strings the code only copies or compares whole (country,      *)
(* name) are plain strings.  An optional value is <<>> (None) or <<v>>.    *)
(* A float is a normalized decimal [m, e] standing for m * 10^e.           *)
(***************************************************************************)
EXTENDS Integers, Sequences, FiniteSets, TLC

\* ------------------------------------------------------------------ bounds
\* longest list of rows drawn from RowPool for one API response
MaxRows == 3

\* ------------------------------------------------------- character helpers
None == <<>>
Some(v) == <<v>>

\* the characters used by the inputs, in code-point order
Alphabet == << " ", "!", "$", "&", ",", "-", ".", "/",
               "0", "1", "2", "3", "4", "5", "6", "7", "8", "9",
               "A", "B", "C", "D", "E", "F", "G", "K", "M", "N", "T",
               "_", "a", "b", "c", "d", "e", "f", "g", "h", "i", "k", "m", "n", "o", "t", "x" >>

\* ord(c), up to an order-preserving renumbering
Ord(c) == CHOOSE i \in 1..Len(Alphabet) : Alphabet[i] = c

IsSpace(c) == c = " "

IsDigit(c) == c \in {"0", "1", "2", "3", "4", "5", "6", "7", "8", "9"}

IsUpper(c) == c \in {"A", "B", "C", "D", "E", "F", "G", "K", "M", "N", "T"}

IsLower(c) == c \in {"a", "b", "c", "d", "e", "f", "g", "h", "i", "k", "m", "n", "o", "t", "x"}

\* regex class [\w\s-]
IsSafeChar(c) == IsDigit(c) \/ IsUpper(c) \/ IsLower(c) \/ c = "_" \/ IsSpace(c) \/ c = "-"

\* str.lower() on one character
Lower(c) ==
    CASE c = "A" -> "a" [] c = "B" -> "b" [] c = "C" -> "c" [] c = "D" -> "d"
      [] c = "E" -> "e" [] c = "F" -> "f" [] c = "G" -> "g" [] c = "K" -> "k"
      [] c = "M" -> "m" [] c = "N" -> "n" [] c = "T" -> "t" [] OTHER -> c

DigitVal(c) ==
    CASE c = "0" -> 0 [] c = "1" -> 1 [] c = "2" -> 2 [] c = "3" -> 3
      [] c = "4" -> 4 [] c = "5" -> 5 [] c = "6" -> 6 [] c = "7" -> 7
      [] c = "8" -> 8 [] c = "9" -> 9

\* s.replace(c, '')
RECURSIVE Remove(_, _)
Remove(s, c) ==
    IF s = <<>> THEN <<>>
    ELSE IF Head(s) = c THEN Remove(Tail(s), c)
    ELSE <<Head(s)>> \o Remove(Tail(s), c)

RECURSIVE LStrip(_)
LStrip(s) == IF s # <<>> /\ IsSpace(Head(s)) THEN LStrip(Tail(s)) ELSE s

RECURSIVE RStrip(_)
RStrip(s) ==
    IF s # <<>> /\ IsSpace(s[Len(s)]) THEN RStrip(SubSeq(s, 1, Len(s) - 1)) ELSE s

\* str.strip()
Strip(s) == RStrip(LStrip(s))

\* ------------------------------------------------------------ decimal floats
RECURSIVE Pow10(_)
Pow10(n) == IF n = 0 THEN 1 ELSE 10 * Pow10(n - 1)

RECURSIVE NumDigits(_)
NumDigits(m) == IF m < 10 THEN 1 ELSE 1 + NumDigits(m \div 10)

\* m * 10^e with no trailing zero in m; zero is [m |-> 0, e |-> 0]
RECURSIVE Normalize(_, _)
Normalize(m, e) ==
    IF m = 0 THEN [m |-> 0, e |-> 0]
    ELSE IF m % 10 = 0 THEN Normalize(m \div 10, e + 1)
    ELSE [m |-> m, e |-> e]

\* a < b for normalized non-negative decimals
FloatLess(a, b) ==
    IF a.m = 0 \/ b.m = 0 THEN a.m = 0 /\ b.m # 0
    ELSE LET da == NumDigits(a.m) + a.e
             db == NumDigits(b.m) + b.e
         IN  IF da # db THEN da < db
             ELSE LET lo == IF a.e < b.e THEN a.e ELSE b.e
                  IN  a.m * Pow10(a.e - lo) < b.m * Pow10(b.e - lo)

RECURSIVE DigitsVal(_)
DigitsVal(s) ==
    IF s = <<>> THEN 0 ELSE 10 * DigitsVal(SubSeq(s, 1, Len(s) - 1)) + DigitVal(s[Len(s)])

AllDigits(s) == \A i \in 1..Len(s) : IsDigit(s[i])

\* float(s) on the plain decimal notation digits[.digits]; None stands for
\* ValueError.  Signs, exponents, inf and nan are not among the inputs.
ParseFloat(s) ==
    LET dots == {i \in 1..Len(s) : s[i] = "."}
    IN  IF dots = {} THEN
            IF s # <<>> /\ AllDigits(s) THEN Some(Normalize(DigitsVal(s), 0)) ELSE None
        ELSE IF Cardinality(dots) > 1 THEN None
        ELSE LET p == CHOOSE i \in dots : TRUE
                 ip == SubSeq(s, 1, p - 1)
                 fp == SubSeq(s, p + 1, Len(s))
             IN  IF AllDigits(ip) /\ AllDigits(fp) /\ Len(ip) + Len(fp) > 0
                 THEN Some(Normalize(DigitsVal(ip \o fp), 0 - Len(fp)))
                 ELSE None

\* int(s); None stands for ValueError
ParseInt(s) == IF s # <<>> /\ AllDigits(s) THEN Some(DigitsVal(s)) ELSE None

NA == <<"N", "/", "A">>

\* the suffix table of parse_market_cap, in iteration order, as powers of ten
multipliers == << <<"T", 12>>, <<"B", 9>>, <<"M", 6>>, <<"K", 3>> >>

parse_market_cap(s) ==
    IF s = <<>> \/ s = NA THEN None
    ELSE LET c == Strip(Remove(Remove(s, "$"), ","))
             hits == {i \in 1..Len(multipliers) : c # <<>> /\ c[Len(c)] = multipliers[i][1]}
         IN  IF hits # {} THEN
                 LET i == CHOOSE k \in hits : \A j \in hits : k <= j
                     f == ParseFloat(SubSeq(c, 1, Len(c) - 1))
                 IN  IF f = None THEN None
                     ELSE Some(Normalize(f[1].m, f[1].e + multipliers[i][2]))
             ELSE ParseFloat(c)

parse_number(s) ==
    IF s = <<>> \/ s = NA THEN None
    ELSE ParseFloat(Strip(Remove(Remove(s, "$"), ",")))

parse_int(s) ==
    IF s = <<>> \/ s = NA THEN None
    ELSE ParseInt(Strip(Remove(s, ",")))

\* ------------------------------------------------------------ fetch_tickers
\* dict.get(key, default)
Get(row, key, default) == IF key \in DOMAIN row THEN row[key] ELSE default

\* variant: a row without a country passes the filter
IsUS_MissingPasses(row) == "country" \notin DOMAIN row \/ row["country"] = "United States"

\* row.get('country') == 'United States'
IsUS(row) == "country" \in DOMAIN row /\ row["country"] = "United States"

MakeTicker(row, symbol) ==
    [symbol    |-> symbol,
     name      |-> Get(row, "name", ""),
     price     |-> parse_number(Get(row, "lastsale", <<>>)),
     marketCap |-> parse_market_cap(Get(row, "marketCap", <<>>)),
     volume    |-> parse_int(Get(row, "volume", <<>>)),
     industry  |-> Get(row, "sector", <<>>)]

SeenSymbols(tickers) == {tickers[i].symbol : i \in 1..Len(tickers)}

\* variant: the seen set is not consulted
SkipSymbol_IgnoreSeen(symbol, seen) == symbol = <<>>

\* `if not symbol or symbol in seen_symbols`
SkipSymbol(symbol, seen) == symbol = <<>> \/ symbol \in seen

\* one round of `for row in rows`: the list of tickers after the row
ParseRow(row, tickers) ==
    LET symbol == Strip(Get(row, "symbol", <<>>))
    IN  IF ~IsUS(row) THEN tickers
        ELSE IF SkipSymbol(symbol, SeenSymbols(tickers)) THEN tickers
        ELSE Append(tickers, MakeTicker(row, symbol))

\* the whole loop, started with tickers = []
RECURSIVE ParseRows(_, _)
ParseRows(rows, tickers) ==
    IF rows = <<>> THEN tickers ELSE ParseRows(Tail(rows), ParseRow(Head(rows), tickers))

\* the try block up to `if not rows`: the exception it raises ("none" if it
\* does not) and the rows it goes on with
TryRequest(resp) ==
    IF resp.kind # "ok" THEN [exc |-> resp.kind, rows |-> <<>>]
    ELSE IF resp.shape = "data_null" THEN [exc |-> "AttributeError", rows |-> <<>>]
    ELSE IF resp.shape \in {"no_data", "no_rows"} THEN [exc |-> "none", rows |-> <<>>]
    ELSE [exc |-> "none", rows |-> resp.rows]

\* variant: `except requests.RequestException`
Caught_RequestsOnly(exc) == exc \in {"ConnectionError", "Timeout", "HTTPError", "JSONDecodeError"}

\* `except Exception`
Caught(exc) == exc \in {"ConnectionError", "Timeout", "HTTPError", "JSONDecodeError", "AttributeError"}

\* --------------------------------------------------------------- save_files
IsNull(t) == t.marketCap = None

\* the positions of xs whose marketCap equals that of another position
Tied(xs) ==
    {i \in 1..Len(xs) : \E j \in 1..Len(xs) : j # i /\ xs[j].marketCap = xs[i].marketCap}

\* the non-null records xs in descending marketCap order.  The sort runs
\* with the default kind='quicksort', which is not stable: records with equal
\* keys may come out in any order, so the result is a set of sequences, one
\* for each way f of permuting the tied records among themselves.
Descending(xs) ==
    LET n == Len(xs)
        \* rank[i]: the place of xs[i] in the stable descending order
        \* (SubSeq makes a tuple of it, computed once)
        rank == SubSeq([i \in 1..n |->
                    1 + Cardinality({j \in 1..n :
                            \/ FloatLess(xs[i].marketCap[1], xs[j].marketCap[1])
                            \/ xs[j].marketCap = xs[i].marketCap /\ j < i})], 1, n)
        at == SubSeq([p \in 1..n |-> CHOOSE i \in 1..n : rank[i] = p], 1, n)
        tied == Tied(xs)
        shuffles == {f \in Permutations(tied) :
                        \A i \in tied : xs[f[i]].marketCap = xs[i].marketCap}
    IN  {[p \in 1..n |-> xs[IF at[p] \in tied THEN f[at[p]] ELSE at[p]]] : f \in shuffles}

\* variant: na_position='first'
sort_values_NullsFirst(tickers) ==
    LET nonNull == SelectSeq(tickers, LAMBDA t : ~IsNull(t))
        nulls == SelectSeq(tickers, IsNull)
    IN  {nulls \o s : s \in Descending(nonNull)}

\* variant: the missing keys come out in reverse input order
sort_values_NullsReversed(tickers) ==
    LET nonNull == SelectSeq(tickers, LAMBDA t : ~IsNull(t))
        nulls == SelectSeq(tickers, IsNull)
    IN  {s \o [i \in 1..Len(nulls) |-> nulls[Len(nulls) + 1 - i]] : s \in Descending(nonNull)}

\* df.sort_values('marketCap', ascending=False).reset_index(drop=True):
\* the frames the call may produce.  Missing keys go last (na_position
\* defaults to 'last') and keep their input order.
sort_values(tickers) ==
    LET nonNull == SelectSeq(tickers, LAMBDA t : ~IsNull(t))
        nulls == SelectSeq(tickers, IsNull)
    IN  {s \o nulls : s \in Descending(nonNull)}

\* variant: one row short
head_OneShort(frame, n) == SubSeq(frame, 1, IF n - 1 < Len(frame) THEN n - 1 ELSE Len(frame))

\* df.head(n)
head(frame, n) == SubSeq(frame, 1, IF n < Len(frame) THEN n ELSE Len(frame))

\* lexicographic order of str
RECURSIVE StrLess(_, _)
StrLess(a, b) ==
    IF b = <<>> THEN FALSE
    ELSE IF a = <<>> THEN TRUE
    ELSE IF Head(a) = Head(b) THEN StrLess(Tail(a), Tail(b))
    ELSE Ord(Head(a)) < Ord(Head(b))

\* sorted(S) for a set of strings
RECURSIVE Sorted(_)
Sorted(S) ==
    IF S = {} THEN <<>>
    ELSE LET mn == CHOOSE a \in S : \A b \in S : a = b \/ StrLess(a, b)
         IN  <<mn>> \o Sorted(S \ {mn})

\* the distinct industry values kept for partitioning: `i and i.strip()`
Industries(frame) ==
    {frame[i].industry : i \in {j \in 1..Len(frame) : Strip(frame[j].industry) # <<>>}}

\* re.sub(r'[^\w\s-]', '', s.lower())
RECURSIVE LowerSafe(_)
LowerSafe(s) ==
    IF s = <<>> THEN <<>>
    ELSE LET c == Lower(Head(s))
         IN  IF IsSafeChar(c) THEN <<c>> \o LowerSafe(Tail(s)) ELSE LowerSafe(Tail(s))

\* re.sub(r'\s+', '_', s)
RECURSIVE Collapse(_)
Collapse(s) ==
    IF s = <<>> THEN <<>>
    ELSE IF IsSpace(Head(s)) THEN <<"_">> \o Collapse(LStrip(s))
    ELSE <<Head(s)>> \o Collapse(Tail(s))

\* the safe file name of an industry
SafeName(industry) == Collapse(Strip(LowerSafe(industry)))

\* df[df['industry'] == industry]
IndustryDf(frame, industry) == SelectSeq(frame, LAMBDA t : t.industry = industry)

\* a directory is a set of [name, rows]; to_csv replaces a file of the same name
WriteFile(dir, name, rows) ==
    {f \in dir : f.name # name} \cup {[name |-> name, rows |-> rows]}

HasFile(dir, name) == \E f \in dir : f.name = name

FileRows(dir, name) == (CHOOSE f \in dir : f.name = name).rows

\* the sizes of the top-N lists, in writing order
TopSizes == <<50, 100, 200>>

TopName(n) ==
    CASE n = 50 -> "top_50" [] n = 100 -> "top_100" [] n = 200 -> "top_200"

\* ------------------------------------------------------------------- inputs
Tech == <<"T", "e", "c", "h">>
tech == <<"t", "e", "c", "h">>
FinCo == <<"F", "i", "n", " ", " ", "&", " ", "C", "o">>

US == "United States"

\* raw screener rows: duplicates of a symbol with different data, symbols
\* that need trimming, blank and missing symbols, other and missing
\* countries, equal, unusable and missing market caps, industries that differ
\* only in case, blank and missing sectors
RowPool ==
    { [country |-> US, symbol |-> <<"A">>, name |-> "Alpha", lastsale |-> <<"$", "1", ".", "5">>,
       marketCap |-> <<"$", "2", "T">>, volume |-> <<"1", ",", "0", "0", "0">>, sector |-> Tech],
      [country |-> US, symbol |-> <<" ", "A", " ">>, name |-> "Alpha again", lastsale |-> NA,
       marketCap |-> <<"$", "1", ".", "5", "K">>, volume |-> <<"7">>, sector |-> tech],
      [country |-> US, symbol |-> <<"B">>, name |-> "Beta", lastsale |-> <<"x">>,
       marketCap |-> <<"1", ",", "5", "0", "0">>, volume |-> NA, sector |-> tech],
      [country |-> US, symbol |-> <<"D">>, name |-> "Delta", lastsale |-> <<>>,
       marketCap |-> NA, volume |-> <<"x">>, sector |-> <<" ">>],
      [country |-> US, symbol |-> <<"E">>, lastsale |-> <<"5">>, volume |-> <<"5">>],
      [country |-> "Canada", symbol |-> <<"F">>, name |-> "Foxtrot", lastsale |-> <<"9">>,
       marketCap |-> <<"$", "9", "B">>, volume |-> <<"9">>, sector |-> Tech],
      [symbol |-> <<"B">>, name |-> "No country", lastsale |-> <<"8">>,
       marketCap |-> <<"$", "8", "M">>, volume |-> <<"8">>, sector |-> FinCo],
      [country |-> US, symbol |-> <<" ">>, name |-> "Blank", lastsale |-> <<"1">>,
       marketCap |-> <<"$", "4", "M">>, volume |-> <<"1">>, sector |-> Tech],
      [country |-> US, name |-> "No symbol", lastsale |-> <<"1">>,
       marketCap |-> <<"$", "5", "M">>, volume |-> <<"1">>, sector |-> tech] }

RowLists == UNION {[1..n -> RowPool] : n \in 0..MaxRows}

RECURSIVE ToDigits(_)
ToDigits(i) ==
    LET d == CHOOSE c \in {"0", "1", "2", "3", "4", "5", "6", "7", "8", "9"} : DigitVal(c) = i % 10
    IN  IF i < 10 THEN <<d>> ELSE ToDigits(i \div 10) \o <<d>>

\* the i-th row of a long response: distinct symbols, market caps growing
\* with i except that rows 1 and 2 are equal and every seventh row has none
BigRow(i) ==
    LET sec == CASE i % 3 = 0 -> Tech [] i % 3 = 1 -> tech [] OTHER -> FinCo
        cap == ToDigits(IF i = 1 THEN 2 ELSE i) \o <<"K">>
    IN  IF i % 7 = 0
        THEN [country |-> US, symbol |-> ToDigits(i), name |-> "Big", lastsale |-> <<"1">>,
              volume |-> <<"1">>, sector |-> sec]
        ELSE [country |-> US, symbol |-> ToDigits(i), name |-> "Big", lastsale |-> <<"1">>,
              marketCap |-> cap, volume |-> <<"1">>, sector |-> sec]

\* lengths of the long responses: at, just above and well above the top-N sizes
BigLens == {50, 51, 201}

BigRowLists == {[i \in 1..n |-> BigRow(i)] : n \in BigLens}

\* what the GET, raise_for_status and response.json() can come to
Responses ==
    {[kind |-> k, shape |-> "none", rows |-> <<>>] :
        k \in {"ConnectionError", "Timeout", "HTTPError", "JSONDecodeError"}}
    \cup {[kind |-> "ok", shape |-> sh, rows |-> <<>>] : sh \in {"no_data", "no_rows", "data_null"}}
    \cup {[kind |-> "ok", shape |-> "rows", rows |-> r] : r \in RowLists \cup BigRowLists}

\* record lists handed to save_files by a caller other than __main__
DirectInputs == {ParseRows(r, <<>>) : r \in RowLists}

\* the output directories before the run: absent, or left by an earlier run
OldFrame ==
    << [symbol |-> <<"x">>, name |-> "Old", price |-> None, marketCap |-> None,
        volume |-> None, industry |-> <<"x">>] >>

OldDisks ==
    { [dirs |-> {}, tickers |-> {}, by_industry |-> {}],
      [dirs |-> {"tickers", "by_industry"},
       tickers |-> {[name |-> n, rows |-> OldFrame] : n \in {"all", "top_50", "top_100", "top_200"}},
       by_industry |-> {[name |-> <<"x">>, rows |-> OldFrame]}] }

\* -------------------------------------------------------------------- state
VARIABLES
    pc,            \* position of the run
    entry,         \* "main" (run as a script) or "call" (save_files called directly)
    response,      \* what the API call came to
    rowIdx,        \* the row the loop of fetch_tickers is at
    fetchExc,      \* the exception that left fetch_tickers, "none" if it returned
    tickers,       \* the list returned by fetch_tickers / passed to save_files
    df,            \* the sorted frame of save_files
    topLeft,       \* the sizes the top-N loop has still to write
    pending,       \* the industries the partition loop has still to write
    disk0,         \* the output directories before the run
    dirs,          \* the directories that exist
    tickersDir,    \* files of tickers/
    industryDir,   \* files of by_industry/
    stdout,        \* the "saved" lines printed so far, as [dir, name]
    result,        \* what save_files returned: "none", "True", "False"
    exitStatus     \* the exit status of the process, -1 while running

vars == <<pc, entry, response, rowIdx, fetchExc, tickers, df, topLeft, pending, disk0, dirs,
          tickersDir, industryDir, stdout, result, exitStatus>>

NoResponse == [kind |-> "none", shape |-> "none", rows |-> <<>>]

Init ==
    /\ pc = "start"
    /\ entry = "none"
    /\ response = NoResponse
    /\ rowIdx = 0
    /\ fetchExc = "none"
    /\ tickers = <<>>
    /\ df = <<>>
    /\ topLeft = <<>>
    /\ pending = <<>>
    /\ disk0 \in OldDisks
    /\ dirs = disk0.dirs
    /\ tickersDir = disk0.tickers
    /\ industryDir = disk0.by_industry
    /\ stdout = <<>>
    /\ result = "none"
    /\ exitStatus = -1

\* ------------------------------------------------------------------ actions
\* __main__ calls fetch_tickers: the request and the checks before the loop.
\* An exception is caught and [] returned; [] is also returned for no rows;
\* __main__ then leaves with exit(1).
Main ==
    /\ pc = "start"
    /\ \E resp \in Responses :
         LET r == TryRequest(resp)
         IN  /\ response' = resp
             /\ entry' = "main"
             /\ IF r.exc # "none" /\ ~Caught(r.exc)
                THEN /\ fetchExc' = r.exc /\ pc' = "crashed" /\ exitStatus' = 1 /\ rowIdx' = rowIdx
                ELSE /\ fetchExc' = "none"
                     /\ IF r.exc # "none" \/ r.rows = <<>>
                        THEN pc' = "exited" /\ exitStatus' = 1 /\ rowIdx' = rowIdx
                        ELSE pc' = "parse_rows" /\ exitStatus' = exitStatus /\ rowIdx' = 1
    /\ UNCHANGED <<tickers, df, topLeft, pending, disk0, dirs, tickersDir, industryDir, stdout, result>>

\* one round of `for row in rows`; after the last row fetch_tickers returns
\* and __main__ leaves with exit(1) on an empty list
FetchRow ==
    /\ pc = "parse_rows"
    /\ tickers' = ParseRow(response.rows[rowIdx], tickers)
    /\ rowIdx' = rowIdx + 1
    /\ IF rowIdx < Len(response.rows)
       THEN pc' = pc /\ exitStatus' = exitStatus
       ELSE IF tickers' = <<>>
            THEN pc' = "exited" /\ exitStatus' = 1
            ELSE pc' = "save_files" /\ exitStatus' = exitStatus
    /\ UNCHANGED <<entry, response, fetchExc, df, topLeft, pending, disk0, dirs, tickersDir,
                   industryDir, stdout, result>>

\* save_files called by an importer of the module
Call ==
    /\ pc = "start"
    /\ \E t \in DirectInputs : tickers' = t
    /\ entry' = "call"
    /\ pc' = "save_files"
    /\ UNCHANGED <<response, rowIdx, fetchExc, df, topLeft, pending, disk0, dirs, tickersDir, industryDir,
                   stdout, result, exitStatus>>

\* variant: no empty check
SaveBegin_NoEmptyCheck ==
    /\ pc = "save_files"
    /\ df' \in sort_values(tickers)
    /\ pc' = "makedirs"
    /\ UNCHANGED <<entry, response, rowIdx, fetchExc, tickers, topLeft, pending, disk0, dirs, tickersDir,
                   industryDir, stdout, result, exitStatus>>

\* save_files: the empty check and the sort
SaveBegin ==
    /\ pc = "save_files"
    /\ IF tickers = <<>>
       THEN /\ result' = "False" /\ pc' = "returned" /\ df' = df
       ELSE /\ df' \in sort_values(tickers) /\ pc' = "makedirs" /\ result' = result
    /\ UNCHANGED <<entry, response, rowIdx, fetchExc, tickers, topLeft, pending, disk0, dirs, tickersDir,
                   industryDir, stdout, exitStatus>>

\* the two os.makedirs calls
Makedirs ==
    /\ pc = "makedirs"
    /\ dirs' = dirs \cup {"tickers", "by_industry"}
    /\ pc' = "write_all"
    /\ UNCHANGED <<entry, response, rowIdx, fetchExc, tickers, df, topLeft, pending, disk0, tickersDir,
                   industryDir, stdout, result, exitStatus>>

\* os.makedirs raises OSError, at the first call or at the second
MakedirsRaises ==
    /\ pc = "makedirs"
    /\ dirs' \in {dirs, dirs \cup {"tickers"}}
    /\ pc' = "raised"
    /\ UNCHANGED <<entry, response, rowIdx, fetchExc, tickers, df, topLeft, pending, disk0, tickersDir,
                   industryDir, stdout, result, exitStatus>>

WriteAll ==
    /\ pc = "write_all"
    /\ tickersDir' = WriteFile(tickersDir, "all", df)
    /\ stdout' = Append(stdout, [dir |-> "tickers", name |-> "all"])
    /\ topLeft' = TopSizes
    /\ pc' = "write_top"
    /\ UNCHANGED <<entry, response, rowIdx, fetchExc, tickers, df, pending, disk0, dirs, industryDir,
                   result, exitStatus>>

\* one round of `for n in [50, 100, 200]`; leaving the loop computes the
\* sorted industries
WriteTop ==
    /\ pc = "write_top"
    /\ LET n == Head(topLeft)
       IN  /\ tickersDir' = WriteFile(tickersDir, TopName(n), head(df, n))
           /\ stdout' = Append(stdout, [dir |-> "tickers", name |-> TopName(n)])
    /\ topLeft' = Tail(topLeft)
    /\ IF Tail(topLeft) = <<>>
       THEN pc' = "write_industry" /\ pending' = Sorted(Industries(df))
       ELSE pc' = pc /\ pending' = pending
    /\ UNCHANGED <<entry, response, rowIdx, fetchExc, tickers, df, disk0, dirs, industryDir, result, exitStatus>>

\* one round of `for industry in sorted(industries)`
WriteIndustry ==
    /\ pc = "write_industry"
    /\ pending # <<>>
    /\ LET industry == Head(pending)
           industry_df == IndustryDf(df, industry)
       IN  IF Len(industry_df) = 0
           THEN UNCHANGED <<industryDir, stdout>>
           ELSE /\ industryDir' = WriteFile(industryDir, SafeName(industry), industry_df)
                /\ stdout' = Append(stdout, [dir |-> "by_industry", name |-> SafeName(industry)])
    /\ pending' = Tail(pending)
    /\ UNCHANGED <<pc, entry, response, rowIdx, fetchExc, tickers, df, topLeft, disk0, dirs, tickersDir,
                   result, exitStatus>>

\* to_csv raises OSError; the file it was about to write is left as it was
WriteRaises ==
    /\ \/ pc \in {"write_all", "write_top"}
       \/ pc = "write_industry" /\ pending # <<>>
    /\ pc' = "raised"
    /\ UNCHANGED <<entry, response, rowIdx, fetchExc, tickers, df, topLeft, pending, disk0, dirs, tickersDir,
                   industryDir, stdout, result, exitStatus>>

\* `return True`
SaveReturn ==
    /\ pc = "write_industry"
    /\ pending = <<>>
    /\ result' = "True"
    /\ pc' = "returned"
    /\ UNCHANGED <<entry, response, rowIdx, fetchExc, tickers, df, topLeft, pending, disk0, dirs, tickersDir,
                   industryDir, stdout, exitStatus>>

\* __main__ after save_files returned
MainFinish ==
    /\ pc = "returned"
    /\ entry = "main"
    /\ exitStatus' = IF result = "True" THEN 0 ELSE 1
    /\ pc' = "exited"
    /\ UNCHANGED <<entry, response, rowIdx, fetchExc, tickers, df, topLeft, pending, disk0, dirs, tickersDir,
                   industryDir, stdout, result>>

\* __main__ calls save_files outside any try: an exception raised there ends
\* the process with a traceback and status 1
MainUnhandled ==
    /\ pc = "raised"
    /\ entry = "main"
    /\ exitStatus' = 1
    /\ pc' = "crashed"
    /\ UNCHANGED <<entry, response, rowIdx, fetchExc, tickers, df, topLeft, pending, disk0, dirs, tickersDir,
                   industryDir, stdout, result>>

Next ==
    \/ Main
    \/ FetchRow
    \/ Call
    \/ SaveBegin
    \/ Makedirs
    \/ MakedirsRaises
    \/ WriteAll
    \/ WriteTop
    \/ WriteIndustry
    \/ WriteRaises
    \/ SaveReturn
    \/ MainFinish
    \/ MainUnhandled

Spec == Init /\ [][Next]_vars

TypeOK ==
    /\ pc \in {"start", "parse_rows", "save_files", "makedirs", "write_all", "write_top", "write_industry",
               "returned", "raised", "exited", "crashed"}
    /\ entry \in {"none", "main", "call"}
    /\ result \in {"none", "True", "False"}
    /\ exitStatus \in {-1, 0, 1}

\* ------------------------------------------------------------------- claims
Fetched == entry = "main" /\ pc \notin {"start", "parse_rows"}

Rows == response.rows

RowIsUnitedStates(j) == "country" \in DOMAIN Rows[j] /\ Rows[j]["country"] = "United States"

\* the trimmed symbol of row j, <<>> if it has none
RowSymbol(j) == IF "symbol" \in DOMAIN Rows[j] THEN Strip(Rows[j]["symbol"]) ELSE <<>>

\* the files written by this run, by their "saved" lines
WrittenTickers == {stdout[i].name : i \in {j \in 1..Len(stdout) : stdout[j].dir = "tickers"}}

WrittenIndustries == {stdout[i].name : i \in {j \in 1..Len(stdout) : stdout[j].dir = "by_industry"}}

\* the contents of every file written by this run
SortedOutputs ==
    {FileRows(tickersDir, n) : n \in WrittenTickers}
    \cup {FileRows(industryDir, n) : n \in WrittenIndustries}

\* C1: every record returned by fetch_tickers is built from a row whose
\* country is exactly "United States"; rows with another or no country
\* contribute nothing.
C1_OnlyUnitedStates ==
    Fetched =>
        /\ \A i \in 1..Len(tickers) :
             \E j \in 1..Len(Rows) :
                /\ RowIsUnitedStates(j)
                /\ RowSymbol(j) = tickers[i].symbol
                /\ tickers[i] = MakeTicker(Rows[j], RowSymbol(j))
        /\ Len(tickers) <= Cardinality({j \in 1..Len(Rows) : RowIsUnitedStates(j)})

\* fetch_tickers returned records from a response holding a row of another
\* country and a row without a country
C1_Witness ==
    /\ Fetched
    /\ tickers # <<>>
    /\ \E j \in 1..Len(Rows) : "country" \notin DOMAIN Rows[j]
    /\ \E j \in 1..Len(Rows) : "country" \in DOMAIN Rows[j] /\ Rows[j]["country"] # "United States"

\* C2: the output of fetch_tickers holds each trimmed symbol at most once and
\* never an empty one, and the record kept for a symbol is the one built from
\* the first United States row with that symbol.
C2_FirstOccurrenceWins ==
    Fetched =>
        /\ \A i \in 1..Len(tickers) : tickers[i].symbol # <<>>
        /\ \A i, k \in 1..Len(tickers) : tickers[i].symbol = tickers[k].symbol => i = k
        /\ \A i \in 1..Len(tickers) :
             LET same == {j \in 1..Len(Rows) : RowIsUnitedStates(j) /\ RowSymbol(j) = tickers[i].symbol}
             IN  /\ same # {}
                 /\ LET first == CHOOSE j \in same : \A k \in same : j <= k
                    IN  tickers[i] = MakeTicker(Rows[first], RowSymbol(first))

\* two United States rows share a trimmed symbol and differ in their data
C2_Witness ==
    /\ Fetched
    /\ \E j, k \in 1..Len(Rows) :
          /\ j < k
          /\ RowIsUnitedStates(j) /\ RowIsUnitedStates(k)
          /\ RowSymbol(j) # <<>> /\ RowSymbol(j) = RowSymbol(k)
          /\ MakeTicker(Rows[j], RowSymbol(j)) # MakeTicker(Rows[k], RowSymbol(k))
          /\ \E i \in 1..Len(tickers) : tickers[i] = MakeTicker(Rows[j], RowSymbol(j))

\* each row against the next one, which by transitivity orders every pair
NullsLastDescending(rows) ==
    \A i \in 1..(Len(rows) - 1) :
        /\ rows[i].marketCap = None => rows[i + 1].marketCap = None
        /\ (rows[i].marketCap # None /\ rows[i + 1].marketCap # None)
               => ~FloatLess(rows[i].marketCap[1], rows[i + 1].marketCap[1])

\* C3: in every file written by save_files the records without a marketCap
\* come after all records with one, and the records with one are in
\* non-increasing marketCap order.
C3_NullsLast == \A rows \in SortedOutputs : NullsLastDescending(rows)

\* all the files of a run are written, from an input that is not in sorted
\* order and holds records with and without a marketCap
C3_Witness ==
    /\ result = "True"
    /\ WrittenIndustries # {}
    /\ ~NullsLastDescending(tickers)
    /\ \E i \in 1..Len(tickers) : tickers[i].marketCap = None
    /\ \E i, j \in 1..Len(tickers) :
          /\ tickers[i].marketCap # None /\ tickers[j].marketCap # None
          /\ FloatLess(tickers[i].marketCap[1], tickers[j].marketCap[1])

Min(a, b) == IF a < b THEN a ELSE b

\* C4: all.csv is a permutation of the list passed to save_files (as many
\* rows as there are unique United States symbols in the response), and
\* top_N.csv is the first min(N, total) rows of all.csv; a save_files that
\* returns True has written all four.
C4_AllAndTopN ==
    /\ "all" \in WrittenTickers =>
          LET all == FileRows(tickersDir, "all")
          IN  /\ Len(all) = Len(tickers)
              /\ \A i \in 1..Len(tickers) : \E j \in 1..Len(all) : all[j] = tickers[i]
              /\ \A j \in 1..Len(all) : \E i \in 1..Len(tickers) : all[j] = tickers[i]
              /\ entry = "main" =>
                    Len(all) = Cardinality({RowSymbol(j) : j \in {k \in 1..Len(Rows) : RowIsUnitedStates(k)}}
                                           \ {<<>>})
    /\ \A n \in {50, 100, 200} :
          TopName(n) \in WrittenTickers =>
             LET all == FileRows(tickersDir, "all")
                 top == FileRows(tickersDir, TopName(n))
             IN  /\ "all" \in WrittenTickers
                 /\ Len(top) = Min(n, Len(all))
                 /\ \A i \in 1..Len(top) : top[i] = all[i]
    /\ result = "True" => WrittenTickers = {"all", "top_50", "top_100", "top_200"}

\* a run over 51 records: top_50.csv is cut to 50 rows and top_100.csv holds
\* all 51
C4_Witness ==
    /\ result = "True"
    /\ Len(tickers) = 51
    /\ Len(FileRows(tickersDir, "top_50")) = 50
    /\ Len(FileRows(tickersDir, "top_100")) = 51
    /\ FileRows(tickersDir, "all") # tickers

\* C5 (as claimed): after save_files completes, every distinct industry that
\* is not blank has a partition file, named by the sanitization rule, holding
\* exactly the records of that industry in sorted order, and no other
\* partition file is written.
C5_PartitionPerIndustry ==
    result = "True" =>
        /\ \A ind \in Industries(tickers) :
              /\ HasFile(industryDir, SafeName(ind))
              /\ FileRows(industryDir, SafeName(ind)) = IndustryDf(df, ind)
        /\ WrittenIndustries = {SafeName(ind) : ind \in Industries(tickers)}

\* C6: save_files called with an empty list returns False and changes
\* nothing: no directory is created, no file is written.
C6_EmptyInputNoEffect ==
    (entry = "call" /\ tickers = <<>>) =>
        /\ pc \in {"save_files", "returned"}
        /\ pc = "returned" => result = "False"
        /\ result # "True"
        /\ dirs = disk0.dirs
        /\ tickersDir = disk0.tickers
        /\ industryDir = disk0.by_industry
        /\ stdout = <<>>

\* save_files has returned from a call with an empty list
C6_Witness ==
    /\ entry = "call"
    /\ tickers = <<>>
    /\ pc = "returned"
    /\ result = "False"
    /\ disk0.dirs = {}

NoRows ==
    \/ response.kind # "ok"
    \/ response.shape # "rows"
    \/ response.rows = <<>>

\* C7: no exception of the network call, the status check or the decoding
\* leaves fetch_tickers; in those cases, and when the row list is absent or
\* empty, fetch_tickers returns the empty list.
C7_FetchNeverRaises ==
    Fetched =>
        /\ fetchExc = "none"
        /\ NoRows => tickers = <<>>

\* fetch_tickers has returned after the decoding failed, or after the
\* decoded body had no usable 'data'
C7_Witness ==
    /\ Fetched
    /\ fetchExc = "none"
    /\ tickers = <<>>
    /\ \/ response.kind = "JSONDecodeError"
       \/ response.kind = "ok" /\ response.shape = "data_null"

Ended == entry = "main" /\ pc \in {"exited", "crashed"}

\* C8 (as claimed): the process ends with a non-zero status when
\* fetch_tickers returned no tickers, and then save_files was never called,
\* or when save_files reported failure; every other run ends with status 0.
C8_ExitStatus ==
    Ended =>
        /\ exitStatus # 0 <=> (tickers = <<>> \/ result = "False")
        /\ tickers = <<>> => (result = "none" /\ df = <<>> /\ stdout = <<>>)

\* C9 (as claimed): no failure ends a phase abnormally: no exception leaves
\* fetch_tickers or save_files and the process never ends on an unhandled
\* exception; save_files returns True only for a non-empty input with all
\* writes completed.
C9_NoUnhandledCrash ==
    /\ pc \notin {"raised", "crashed"}
    /\ fetchExc = "none"
    /\ result = "True" =>
          /\ tickers # <<>>
          /\ WrittenTickers = {"all", "top_50", "top_100", "top_200"}

\* the records of rows with marketCap cap, in the order of the list passed to
\* save_files (records are told apart by their symbols, which are unique)
InInputOrder(rows, cap) ==
    LET inFile == {rows[i] : i \in 1..Len(rows)}
    IN  SelectSeq(tickers, LAMBDA t : t.marketCap = cap /\ t \in inFile)

Caps == {tickers[i].marketCap : i \in 1..Len(tickers)}

\* C10 (as claimed): the records with equal marketCap, null or not, appear in
\* all.csv and in every file derived from it in the relative order they had
\* in the list passed to save_files.
C10_StableSort ==
    \A rows \in SortedOutputs :
        \A cap \in Caps :
            SelectSeq(rows, LAMBDA t : t.marketCap = cap) = InInputOrder(rows, cap)

\* C10 (amended): the records without a marketCap appear in all.csv and in
\* every file derived from it in the relative order they had in the list
\* passed to save_files.
C10_NullsKeepOrder ==
    \A rows \in SortedOutputs :
        SelectSeq(rows, LAMBDA t : t.marketCap = None) = InInputOrder(rows, None)

\* all.csv is written from a list in which a record with a marketCap stands
\* between two records without one
C10_Witness ==
    /\ "all" \in WrittenTickers
    /\ \E i, j, k \in 1..Len(tickers) :
          /\ i < k /\ k < j
          /\ tickers[i].marketCap = None
          /\ tickers[j].marketCap = None
          /\ tickers[k].marketCap # None

====
